---- MODULE Spec2Model ----
(***************************************************************************)
(* Model of scripts/metal_releases.py: the robots.txt gate, the retrying   *)
(* challenge-aware GET, the two source parsers, the enrichment loop and    *)
(* the snapshot writer, run in the order main() runs them.                 *)
(*                                                                         *)
(* Strings whose content the code inspects are tuples of one-character     *)
(* strings, date texts are tuples of tokens; None and "" are both <<>>.    *)
(***************************************************************************)
EXTENDS FiniteSets, Integers, Sequences, TLC

(* ---------------- bounds of the model ---------------- *)
\* largest crawl-delay a robots.txt declares in the model
MaxDeclaredDelay == 4
\* largest number of rows in the Metal-Archives answer
MaxRows == 2

(* ---------------- program constants ---------------- *)
\* the floor and default of get_crawl_delay
MinDelay == 3
\* stop_after_attempt(3)
MaxAttempts == 3
\* wait_exponential(min=2, max=8)
WaitMin == 2
WaitMax == 8
\* parse_metalstorm_pages(4)
Pages == 4

(* ---------------- strings ---------------- *)
UpperLetters ==
  <<"A", "B", "C", "D", "E", "F", "G", "H", "I", "J", "K", "L", "M",
    "N", "O", "P", "Q", "R", "S", "T", "U", "V", "W", "X", "Y", "Z">>

LowerLetters ==
  <<"a", "b", "c", "d", "e", "f", "g", "h", "i", "j", "k", "l", "m",
    "n", "o", "p", "q", "r", "s", "t", "u", "v", "w", "x", "y", "z">>

LowerChar(c) ==
  IF \E i \in 1..Len(UpperLetters) : UpperLetters[i] = c
  THEN LowerLetters[CHOOSE i \in 1..Len(UpperLetters) : UpperLetters[i] = c]
  ELSE c

\* str.lower()
Lower(s) == [i \in 1..Len(s) |-> LowerChar(s[i])]

\* the "in" operator on strings: m occurs in s as a contiguous run
Contains(s, m) ==
  \E k \in 0..(Len(s) - Len(m)) : \A i \in 1..Len(m) : s[k + i] = m[i]

\* str.strip(), as get_text(strip=True) applies it
RECURSIVE Strip(_)
Strip(s) ==
  IF s = <<>> THEN s
  ELSE IF Head(s) = " " THEN Strip(Tail(s))
  ELSE IF s[Len(s)] = " " THEN Strip(SubSeq(s, 1, Len(s) - 1))
  ELSE s

(* ---------------- robots.txt helpers ---------------- *)
\* rp is None (read = FALSE) or a parser whose can_fetch answers yes or no
\* or raises and whose crawl_delay answers None, a number or raises
NoRp == [read |-> FALSE, canFetch |-> "yes", delayKind |-> "none", delayVal |-> 0]

ReadRps ==
  [read : {TRUE}, canFetch : {"yes", "no", "raises"},
   delayKind : {"none", "raises"}, delayVal : {0}]
  \cup
  [read : {TRUE}, canFetch : {"yes", "no", "raises"},
   delayKind : {"value"}, delayVal : 0..MaxDeclaredDelay]

\* fetch_robots: the parser when rp.read() returns, None when it raises
fetch_robots(readOk, parser) == IF readOk THEN parser ELSE NoRp

allowed_by_robots_failclosed(p) == p.read /\ p.canFetch # "no"

allowed_by_robots_always(p) == TRUE

allowed_by_robots(p) ==
  IF ~p.read THEN TRUE
  ELSE IF p.canFetch = "raises" THEN TRUE
  ELSE p.canFetch = "yes"

Max(a, b) == IF a >= b THEN a ELSE b

Min(a, b) == IF a <= b THEN a ELSE b

get_crawl_delay_nofloor(p) ==
  IF ~p.read THEN MinDelay
  ELSE IF p.delayKind = "raises" THEN MinDelay
  ELSE IF p.delayKind = "none" THEN MinDelay
  ELSE p.delayVal

get_crawl_delay(p) ==
  IF ~p.read THEN MinDelay
  ELSE IF p.delayKind = "raises" THEN MinDelay
  ELSE IF p.delayKind = "none" THEN MinDelay
  ELSE Max(MinDelay, p.delayVal)

(* ---------------- challenge detection ---------------- *)
Markers ==
  { <<"p", "l", "e", "a", "s", "e", " ", "e", "n", "a", "b", "l", "e", " ",
      "j", "a", "v", "a", "s", "c", "r", "i", "p", "t">>,
    <<"c", "f", "-", "c", "h", "l", "-", "b", "y", "p", "a", "s", "s">>,
    <<"c", "a", "p", "t", "c", "h", "a">>,
    <<"a", "t", "t", "e", "n", "t", "i", "o", "n", " ",
      "r", "e", "q", "u", "i", "r", "e", "d">> }

ChallengeStatuses == {403, 429}

detect_cloudflare_casesensitive(text, status) ==
  \/ status \in ChallengeStatuses
  \/ \E m \in Markers : Contains(text, m)

detect_cloudflare(text, status) ==
  \/ status \in ChallengeStatuses
  \/ \E m \in Markers : Contains(Lower(text), m)

\* the response bodies of the model
BodyOk == <<"o", "k">>
BodyCaptcha == <<"C", "a", "p", "t", "c", "h", "a">>
BodyAttention ==
  <<"A", "t", "t", "e", "n", "t", "i", "o", "n", " ",
    "R", "e", "q", "u", "i", "r", "e", "d">>
BodyJavascript ==
  <<"x", " ", "P", "L", "E", "A", "S", "E", " ", "E", "N", "A", "B", "L", "E",
    " ", "J", "A", "V", "A", "S", "C", "R", "I", "P", "T">>
BodyBypass == <<"c", "f", "-", "c", "h", "l", "-", "b", "y", "p", "a", "s", "s">>
BodyNearMiss == <<"c", "a", "p", "t", "c", "h", " ", "a">>
BodyEmpty == <<>>

Bodies ==
  {BodyOk, BodyCaptcha, BodyAttention, BodyJavascript, BodyBypass,
   BodyNearMiss, BodyEmpty}

Statuses == {200, 403, 429, 404, 500}

\* what requests.get does: a transport error, or a response
NoResp == [kind |-> "none", status |-> 0, text |-> <<>>]

GetResults ==
  {[kind |-> "error", status |-> 0, text |-> <<>>]}
  \cup [kind : {"response"}, status : Statuses, text : Bodies]

raise_for_status_never(status) == FALSE

\* Response.raise_for_status: HTTPError for 4xx and 5xx
raise_for_status(status) == status >= 400 /\ status < 600

\* one attempt with raise_for_status ahead of the challenge check
attempt_statusfirst(r) ==
  IF r.kind = "error" THEN "RequestException"
  ELSE IF raise_for_status(r.status) THEN "HTTPError"
  ELSE IF detect_cloudflare(r.text, r.status) THEN "CloudflareDetected"
  ELSE "ok"

\* one attempt of safe_get's body: the exception it raises, or "ok"
attempt(r) ==
  IF r.kind = "error" THEN "RequestException"
  ELSE IF detect_cloudflare(r.text, r.status) THEN "CloudflareDetected"
  ELSE IF raise_for_status(r.status) THEN "HTTPError"
  ELSE "ok"

\* the outcomes one attempt can have, over every result of requests.get
AttemptResults == {attempt(r) : r \in GetResults}

(* ---------------- the retry decorator of safe_get ---------------- *)
\* retry_if_exception_type((requests.RequestException, CloudflareDetected));
\* HTTPError is a RequestException
RetriedExceptions == {"RequestException", "HTTPError", "CloudflareDetected"}

ShouldRetry(o) == o \in RetriedExceptions

StopAfterAttempt_four(n) == n >= MaxAttempts + 1

\* stop_after_attempt(3)
StopAfterAttempt(n) == n >= MaxAttempts

RECURSIVE Pow2(_)
Pow2(n) == IF n <= 0 THEN 1 ELSE 2 * Pow2(n - 1)

wait_exponential_nomin(n) == Min(Pow2(n - 1), WaitMax)

\* wait_exponential(min=2, max=8), multiplier 1, after attempt number n
wait_exponential(n) == Max(Max(0, WaitMin), Min(Pow2(n - 1), WaitMax))

ExhaustedException_reraise(outcomes) == outcomes[Len(outcomes)]

\* what the decorator raises once the stop condition holds: reraise is not
\* set, so the last exception is wrapped in a RetryError, which is none of
\* RequestException, CloudflareDetected
ExhaustedException(outcomes) == "RetryError"

PrimaryHandler_any(exc) == "fallback"

\* the try statement around the call with USER_AGENT: "fallback" for the
\* except CloudflareDetected clause, "abandon" for except Exception
PrimaryHandler(exc) == IF exc = "CloudflareDetected" THEN "fallback" ELSE "abandon"

(* ---------------- dates ---------------- *)
\* a date text is a tuple of tokens; a parsed date is [y, m, d]
YearTokens == <<"2023", "2024", "2025">>
YearValues == <<2023, 2024, 2025>>
MonthNumbers ==
  <<"01", "02", "03", "04", "05", "06", "07", "08", "09", "10", "11", "12">>
MonthAbbrevs ==
  <<"Jan", "Feb", "Mar", "Apr", "May", "Jun",
    "Jul", "Aug", "Sep", "Oct", "Nov", "Dec">>
DayNumbers ==
  <<"01", "02", "03", "04", "05", "06", "07", "08", "09", "10", "11", "12", "13", "14", "15", "16", "17", "18", "19", "20", "21", "22", "23", "24", "25", "26", "27", "28", "29", "30", "31">>

IndexOf(seq, x) == CHOOSE i \in 1..Len(seq) : seq[i] = x

Occurs(seq, x) == \E i \in 1..Len(seq) : seq[i] = x

DaysInMonth(y, m) ==
  IF m = 2 THEN (IF y % 4 = 0 /\ (y % 100 # 0 \/ y % 400 = 0) THEN 29 ELSE 28)
  ELSE IF m \in {4, 6, 9, 11} THEN 30 ELSE 31

NoDate == <<>>

\* datetime.fromisoformat(t) succeeds on YYYY-MM-DD
IsIsoDate(t) ==
  /\ Len(t) = 5
  /\ t[2] = "-" /\ t[4] = "-"
  /\ Occurs(YearTokens, t[1]) /\ Occurs(MonthNumbers, t[3]) /\ Occurs(DayNumbers, t[5])
  /\ IndexOf(DayNumbers, t[5])
       <= DaysInMonth(YearValues[IndexOf(YearTokens, t[1])], IndexOf(MonthNumbers, t[3]))

fromisoformat(t) ==
  [y |-> YearValues[IndexOf(YearTokens, t[1])],
   m |-> IndexOf(MonthNumbers, t[3]),
   d |-> IndexOf(DayNumbers, t[5])]

\* datetime.strptime(t, "%d %b %Y") succeeds
IsDayMonthYear(t) ==
  /\ Len(t) = 5
  /\ t[2] = " " /\ t[4] = " "
  /\ Occurs(DayNumbers, t[1]) /\ Occurs(MonthAbbrevs, t[3]) /\ Occurs(YearTokens, t[5])
  /\ IndexOf(DayNumbers, t[1])
       <= DaysInMonth(YearValues[IndexOf(YearTokens, t[5])], IndexOf(MonthAbbrevs, t[3]))

strptime(t) ==
  [y |-> YearValues[IndexOf(YearTokens, t[5])],
   m |-> IndexOf(MonthAbbrevs, t[3]),
   d |-> IndexOf(DayNumbers, t[1])]

\* date.isoformat()
isoformat(dt) ==
  <<YearTokens[IndexOf(YearValues, dt.y)], "-", MonthNumbers[dt.m], "-", DayNumbers[dt.d]>>

MADate_isoonly(t) == IF IsIsoDate(t) THEN isoformat(fromisoformat(t)) ELSE NoDate

\* the nested try statements that set iso for a Metal-Archives row
MADate(t) ==
  IF IsIsoDate(t) THEN isoformat(fromisoformat(t))
  ELSE IF IsDayMonthYear(t) THEN isoformat(strptime(t))
  ELSE NoDate

(* ---------------- Metal-Archives rows ---------------- *)
\* an HTML cell: its text as BeautifulSoup sees it, and the href of its
\* first <a> (<<>> when it has none)
Cell(text, href) == [text |-> text, href |-> href]

get_text(cell) == Strip(cell.text)

TextIso == <<"2024", "-", "03", "-", "15">>
TextDayMonthYear == <<"15", " ", "Mar", " ", "2024">>
TextFree == <<"Mar", " ", "15">>

NameOak == <<"O", "a", "k">>
NameOakUpper == <<"O", "A", "K">>
NameOakPadded == <<" ", "O", "a", "k", " ">>
NameElm == <<"E", "l", "m">>
NameSap == <<"S", "a", "p">>
NameBark == <<"B", "a", "r", "k">>
HrefSap == <<"/albums/Oak/Sap/1">>

\* a row of aaData is a tuple <<date text, artist cell, album cell, ...>>
RowIso == <<TextIso, Cell(NameOakPadded, <<>>), Cell(NameSap, HrefSap)>>
RowDayMonthYear == <<TextDayMonthYear, Cell(NameOakUpper, <<>>), Cell(NameSap, <<>>)>>
RowFree == <<TextFree, Cell(NameElm, <<>>), Cell(NameBark, <<>>)>>
RowShort == <<TextIso, Cell(NameElm, <<>>)>>

RowSet == {RowIso, RowDayMonthYear, RowFree, RowShort}

RECURSIVE SeqsUpTo(_, _)
SeqsUpTo(S, n) ==
  IF n = 0 THEN {<<>>}
  ELSE LET shorter == SeqsUpTo(S, n - 1)
       IN  shorter \cup {Append(q, x) : q \in {r \in shorter : Len(r) = n - 1}, x \in S}

\* what r.json() does: raises, returns an object (its aaData rows, <<>> when
\* the key is missing), or returns a value that is not an object
JsonResults ==
  {[kind |-> "invalid", rows |-> <<>>], [kind |-> "nonobject", rows |-> <<>>]}
  \cup [kind : {"object"}, rows : SeqsUpTo(RowSet, MaxRows)]

MARecord(row) ==
  LET artist == get_text(row[2])
      album == get_text(row[3])
      link == row[3].href
  IN  [source |-> "metal-archives",
       id |-> <<"ma:">> \o (IF link # <<>> THEN link
                            ELSE artist \o <<"|">> \o album \o <<"|">> \o row[1]),
       artist |-> artist,
       title |-> album,
       date |-> MADate(row[1]),
       url |-> link]

\* the loop over rows, ended by the first row whose date does not parse
RECURSIVE MARecords_abort(_)
MARecords_abort(rows) ==
  IF rows = <<>> THEN <<>>
  ELSE IF Len(Head(rows)) < 3 THEN MARecords_abort(Tail(rows))
  ELSE IF MADate(Head(rows)[1]) = NoDate THEN <<>>
  ELSE <<MARecord(Head(rows))>> \o MARecords_abort(Tail(rows))

\* the loop over rows
RECURSIVE MARecords(_)
MARecords(rows) ==
  IF rows = <<>> THEN <<>>
  ELSE IF Len(Head(rows)) < 3 THEN MARecords(Tail(rows))
  ELSE <<MARecord(Head(rows))>> \o MARecords(Tail(rows))

(* ---------------- MetalStorm pages ---------------- *)
\* a page: its .release elements and the rows of its tables. An element is
\* [title, artist, date], each a cell or Missing; a table row is a tuple of cells
Missing == [text |-> <<>>, href |-> <<"missing">>]

BaseMS == <<"https://metalstorm.net">>

text_or_none(el) == IF el = Missing THEN <<>> ELSE get_text(el)

has_href(el) == el # Missing /\ el.href # <<>>

ReleaseRecord(item) ==
  LET title == text_or_none(item.title)
      artist == text_or_none(item.artist)
  IN  [source |-> "metalstorm",
       id |-> <<"ms:">> \o (IF has_href(item.title) THEN item.title.href
                            ELSE artist \o <<"|">> \o title),
       artist |-> artist,
       title |-> title,
       date |-> text_or_none(item.date),
       url |-> IF has_href(item.title) THEN BaseMS \o item.title.href ELSE <<>>]

TableRecord(tds) ==
  LET artist == get_text(tds[1])
      title == get_text(tds[2])
      date_text == get_text(tds[3])
  IN  [source |-> "metalstorm",
       id |-> <<"ms:">> \o artist \o <<"|">> \o title \o <<"|">> \o date_text,
       artist |-> artist,
       title |-> title,
       date |-> date_text,
       url |-> <<>>]

RECURSIVE ReleaseRecords(_)
ReleaseRecords(items) ==
  IF items = <<>> THEN <<>>
  ELSE <<ReleaseRecord(Head(items))>> \o ReleaseRecords(Tail(items))

RECURSIVE TableRecords(_)
TableRecords(trs) ==
  IF trs = <<>> THEN <<>>
  ELSE IF Len(Head(trs)) >= 3 THEN <<TableRecord(Head(trs))>> \o TableRecords(Tail(trs))
  ELSE TableRecords(Tail(trs))

\* the records one page adds: the .release elements, the table rows when
\* there is none
PageRecords(html) ==
  IF Len(html.releases) > 0 THEN ReleaseRecords(html.releases)
  ELSE TableRecords(html.rows)

ItemFull ==
  [title |-> Cell(NameSap, <<"/albums/1">>), artist |-> Cell(NameOak, <<>>),
   date |-> Cell(TextFree, <<>>)]
ItemBare == [title |-> Cell(NameBark, <<>>), artist |-> Missing, date |-> Missing]
TrFull == <<Cell(NameElm, <<>>), Cell(NameBark, <<>>), Cell(TextIso, <<>>)>>
TrShort == <<Cell(NameElm, <<>>), Cell(NameBark, <<>>)>>

PageReleases == [releases |-> <<ItemFull, ItemBare>>, rows |-> <<TrFull>>]
PageTable == [releases |-> <<>>, rows |-> <<TrShort, TrFull>>]

PageSet == {PageReleases, PageTable}

(* ---------------- enrichment ---------------- *)
\* what musicbrainzngs.search_releases does
LookupResults == {"found", "empty", "raises"}

MbRelease == [mbid |-> <<"mb-1">>, date |-> <<"2024">>]

NoMb == [mbid |-> <<>>, date |-> <<>>]

\* enrich_musicbrainz asks MusicBrainz only for an item with artist and title
LooksUp(item) == item.artist # <<>> /\ item.title # <<>>

\* enrich_musicbrainz: the dict, or None (NoMb)
enrich_musicbrainz(item, lookup) ==
  IF ~LooksUp(item) THEN NoMb
  ELSE IF lookup = "found" THEN MbRelease
  ELSE NoMb

Enriched_overwrite(item, lookup) ==
  LET mb == enrich_musicbrainz(item, lookup)
  IN  IF mb # NoMb THEN ("enriched" :> mb) @@ [item EXCEPT !.date = mb.date]
      ELSE item

\* the body of the enrichment loop of main for one record
Enriched(item, lookup) ==
  LET mb == enrich_musicbrainz(item, lookup)
  IN  IF mb # NoMb THEN ("enriched" :> mb) @@ item ELSE item

(* ---------------- the run ---------------- *)
VARIABLES
  pc,           \* where main is
  src,          \* the source being parsed: "ma" or "ms"
  rp,           \* the robots parser of the current source
  readFailed,   \* fetch_robots returned None for the current source
  policyReads,  \* per source, how often robots.txt was read
  denied,       \* per source, whether its robots.txt disallows its path
  delay,        \* the crawl delay of the current source, 0 before it is set
  lastSleep,    \* seconds of time.sleep(delay) since the last safe_get call
  page,         \* p of parse_metalstorm_pages, 0 for Metal-Archives
  ua,           \* the User-Agent of the current safe_get call
  callOutcomes, \* the outcomes of the attempts of the current safe_get call
  waits,        \* the waits between the attempts of the current call
  resp,         \* the response of the last attempt, where it is kept
  exc,          \* the exception that left the last safe_get call, or "none"
  calls,        \* every safe_get call made by the parsers, in order
  results,      \* the list the current parser is building
  ma,           \* what parse_metal_archives_upcoming returned
  ms,           \* what parse_metalstorm_pages returned
  combined,     \* main's list of records
  idx,          \* position of the enrichment loop in combined
  written,      \* the lists handed to write_output, in order
  data,         \* how r.json() ended for Metal-Archives, with the rows it gave
  lastLookup    \* how the lookup of the last enrichment round ended

vars ==
  <<pc, src, rp, readFailed, policyReads, denied, delay, lastSleep, page, ua,
    callOutcomes, waits, resp, exc, calls, results, ma, ms, combined, idx,
    written, data, lastLookup>>

Sources == {"ma", "ms"}

\* before r.json() has run
NoData == [kind |-> "none", rows |-> <<>>]

Init ==
  /\ pc = "robots"
  /\ src = "ma"
  /\ rp = NoRp
  /\ readFailed = FALSE
  /\ policyReads = [s \in Sources |-> 0]
  /\ denied = [s \in Sources |-> FALSE]
  /\ delay = 0
  /\ lastSleep = 0
  /\ page = 0
  /\ ua = "primary"
  /\ callOutcomes = <<>>
  /\ waits = <<>>
  /\ resp = NoResp
  /\ exc = "none"
  /\ calls = <<>>
  /\ results = <<>>
  /\ ma = <<>>
  /\ ms = <<>>
  /\ combined = <<>>
  /\ idx = 0
  /\ written = <<>>
  /\ data = NoData
  /\ lastLookup = "none"

\* rp = fetch_robots(base)
FetchRobots ==
  /\ pc = "robots"
  /\ \E readOk \in BOOLEAN, parser \in ReadRps :
       /\ rp' = fetch_robots(readOk, parser)
       /\ readFailed' = ~readOk
       /\ denied' = [denied EXCEPT ![src] = readOk /\ parser.canFetch = "no"]
  /\ policyReads' = [policyReads EXCEPT ![src] = @ + 1]
  /\ pc' = "allowed"
  /\ UNCHANGED <<src, delay, lastSleep, page, ua, callOutcomes,
                 waits, resp, exc, calls, results, ma, ms, combined, idx,
                 written,
                 data, lastLookup>>

\* if not allowed_by_robots(rp, path): return []
CheckAllowed ==
  /\ pc = "allowed"
  /\ IF allowed_by_robots(rp)
     THEN /\ pc' = "delay"
          /\ UNCHANGED <<results, rp>>
     ELSE /\ pc' = "return"
          /\ results' = <<>>
          /\ rp' = NoRp
  /\ UNCHANGED <<src, readFailed, policyReads, denied, delay, lastSleep, page, ua,
                 callOutcomes, waits, resp, exc, calls, ma, ms, combined,
                 idx, written,
                 data, lastLookup>>

\* delay = get_crawl_delay(rp); parse_metalstorm_pages goes on to its loop
\* with results = [] and p = 1
ReadDelay ==
  /\ pc = "delay"
  /\ delay' = get_crawl_delay(rp)
  /\ results' = <<>>
  /\ IF src = "ma"
     THEN pc' = "sleep" /\ page' = 0
     ELSE pc' = "loop" /\ page' = 1
  /\ UNCHANGED <<src, rp, readFailed, policyReads, denied, lastSleep, ua,
                 callOutcomes, waits, resp, exc, calls, ma, ms, combined,
                 idx, written,
                 data, lastLookup>>

\* time.sleep(delay) of parse_metal_archives_upcoming; rp is not read again
MASleep ==
  /\ pc = "sleep"
  /\ lastSleep' = delay
  /\ ua' = "primary"
  /\ rp' = NoRp
  /\ pc' = "call"
  /\ UNCHANGED <<src, readFailed, policyReads, denied, delay, page,
                 callOutcomes, waits, resp, exc, calls, results, ma, ms,
                 combined, idx, written,
                 data, lastLookup>>

MSLoop_onemore ==
  /\ pc = "loop"
  /\ IF page <= Pages + 1
     THEN /\ lastSleep' = delay
          /\ ua' = "primary"
          /\ pc' = "call"
     ELSE /\ pc' = "return"
          /\ UNCHANGED <<lastSleep, ua>>
  /\ rp' = NoRp
  /\ UNCHANGED <<src, readFailed, policyReads, denied, delay, page,
                 callOutcomes, waits, resp, exc, calls, results, ma, ms,
                 combined, idx, written,
                 data, lastLookup>>

\* for p in range(1, pages + 1): time.sleep(delay); past the last page the
\* loop ends and the function returns results; rp is not read again
MSLoop ==
  /\ pc = "loop"
  /\ IF page <= Pages
     THEN /\ lastSleep' = delay
          /\ ua' = "primary"
          /\ pc' = "call"
     ELSE /\ pc' = "return"
          /\ UNCHANGED <<lastSleep, ua>>
  /\ rp' = NoRp
  /\ UNCHANGED <<src, readFailed, policyReads, denied, delay, page,
                 callOutcomes, waits, resp, exc, calls, results, ma, ms,
                 combined, idx, written,
                 data, lastLookup>>

\* safe_get(url, headers={"User-Agent": ua}) is entered
Call ==
  /\ pc = "call"
  /\ calls' = Append(calls, [src |-> src, page |-> page, ua |-> ua,
                             slept |-> (lastSleep > 0 /\ lastSleep = delay),
                             result |-> "pending"])
  /\ lastSleep' = 0
  /\ callOutcomes' = <<>>
  /\ waits' = <<>>
  /\ exc' = "none"
  /\ pc' = "attempt"
  /\ UNCHANGED <<src, rp, readFailed, policyReads, denied, delay, page, ua,
                 resp, results, ma, ms, combined, idx, written,
                 data, lastLookup>>

\* one run of safe_get's body: requests.get, detect_cloudflare,
\* raise_for_status. The run keeps the outcome of the attempt only
Attempt ==
  /\ pc = "attempt"
  /\ \E o \in AttemptResults : callOutcomes' = Append(callOutcomes, o)
  /\ pc' = "resolve"
  /\ UNCHANGED <<src, rp, readFailed, policyReads, denied, delay, lastSleep,
                 page, ua, waits, resp, exc, calls, results, ma, ms,
                 combined, idx, written,
                 data, lastLookup>>

\* the same, with the response kept
AttemptResponse ==
  /\ pc = "attempt"
  /\ \E r \in GetResults :
       /\ resp' = r
       /\ callOutcomes' = Append(callOutcomes, attempt(r))
  /\ pc' = "resolve"
  /\ UNCHANGED <<src, rp, readFailed, policyReads, denied, delay, lastSleep,
                 page, ua, waits, exc, calls, results, ma, ms, combined, idx,
                 written,
                 data, lastLookup>>

\* how a finished call is entered in calls
CallResult(outcomes) ==
  IF outcomes[Len(outcomes)] = "ok" THEN "ok"
  ELSE IF \A i \in 1..Len(outcomes) : outcomes[i] = "CloudflareDetected"
  THEN "challenged"
  ELSE "failed"

\* the exception that leaves safe_get after its last attempt failed
Raised(outcomes) ==
  IF ShouldRetry(outcomes[Len(outcomes)])
  THEN ExhaustedException(outcomes)
  ELSE outcomes[Len(outcomes)]

\* the decorator after an attempt: return the response, wait and run the
\* body again, or raise. The attempts of a call that has ended are forgotten
Resolve ==
  /\ pc = "resolve"
  /\ LET n == Len(callOutcomes)
         o == callOutcomes[n]
         closed == [calls EXCEPT ![Len(calls)].result = CallResult(callOutcomes)]
     IN  IF o = "ok"
         THEN /\ pc' = "returned"
              /\ calls' = closed
              /\ callOutcomes' = <<>>
              /\ waits' = <<>>
              /\ UNCHANGED <<resp, exc>>
         ELSE IF ShouldRetry(o) /\ ~StopAfterAttempt(n)
         THEN /\ pc' = "attempt"
              /\ waits' = Append(waits, wait_exponential(n))
              /\ resp' = NoResp
              /\ UNCHANGED <<calls, callOutcomes, exc>>
         ELSE /\ pc' = "raised"
              /\ calls' = closed
              /\ exc' = Raised(callOutcomes)
              /\ resp' = NoResp
              /\ callOutcomes' = <<>>
              /\ waits' = <<>>
  /\ UNCHANGED <<src, rp, readFailed, policyReads, denied, delay, lastSleep,
                 page, ua, results, ma, ms, combined, idx, written,
                 data, lastLookup>>

\* the try statement around the call with USER_AGENT sends CloudflareDetected
\* to a call with FALLBACK_USER_AGENT and any other exception to return [] or
\* break; the try statement around the fallback call has the latter only
Handler(u, e) == IF u = "primary" THEN PrimaryHandler(e) ELSE "abandon"

Handle_discard ==
  /\ pc = "raised"
  /\ IF Handler(ua, exc) = "fallback"
     THEN /\ pc' = "call"
          /\ ua' = "fallback"
          /\ UNCHANGED results
     ELSE /\ pc' = "return"
          /\ results' = <<>>
          /\ UNCHANGED ua
  /\ UNCHANGED <<src, rp, readFailed, policyReads, denied, delay, lastSleep,
                 page, callOutcomes, waits, resp, exc, calls, ma, ms,
                 combined, idx, written,
                 data, lastLookup>>

\* the except clauses of the parser
Handle ==
  /\ pc = "raised"
  /\ IF Handler(ua, exc) = "fallback"
     THEN /\ pc' = "call"
          /\ ua' = "fallback"
          /\ UNCHANGED results
     ELSE /\ pc' = "return"
          /\ results' = IF src = "ma" THEN <<>> ELSE results
          /\ UNCHANGED ua
  /\ UNCHANGED <<src, rp, readFailed, policyReads, denied, delay, lastSleep,
                 page, callOutcomes, waits, resp, exc, calls, ma, ms,
                 combined, idx, written,
                 data, lastLookup>>

ParseMA_uncaught ==
  /\ pc = "returned"
  /\ src = "ma"
  /\ \E j \in JsonResults :
       /\ data' = j
       /\ IF j.kind = "invalid"
          THEN pc' = "crashed" /\ results' = <<>> /\ exc' = "ValueError"
          ELSE IF j.kind = "nonobject"
          THEN pc' = "crashed" /\ results' = <<>> /\ exc' = "AttributeError"
          ELSE pc' = "return" /\ results' = MARecords(j.rows) /\ exc' = "none"
  /\ resp' = NoResp
  /\ UNCHANGED <<src, rp, readFailed, policyReads, denied, delay, lastSleep,
                 page, ua, callOutcomes, waits, calls, ma, ms, combined, idx,
                 written,
                 lastLookup>>

\* parse_metal_archives_upcoming from data = r.json() on: an invalid body
\* returns [], data.get of a value that is no object raises AttributeError,
\* which nothing catches
ParseMA ==
  /\ pc = "returned"
  /\ src = "ma"
  /\ \E j \in JsonResults :
       /\ data' = j
       /\ IF j.kind = "invalid"
          THEN pc' = "return" /\ results' = <<>> /\ exc' = "none"
          ELSE IF j.kind = "nonobject"
          THEN pc' = "crashed" /\ results' = <<>> /\ exc' = "AttributeError"
          ELSE pc' = "return" /\ results' = MARecords(j.rows) /\ exc' = "none"
  /\ resp' = NoResp
  /\ UNCHANGED <<src, rp, readFailed, policyReads, denied, delay, lastSleep,
                 page, ua, callOutcomes, waits, calls, ma, ms, combined, idx,
                 written,
                 lastLookup>>

\* the rest of the loop body of parse_metalstorm_pages for page p
ParseMS ==
  /\ pc = "returned"
  /\ src = "ms"
  /\ \E html \in PageSet : results' = results \o PageRecords(html)
  /\ page' = page + 1
  /\ pc' = "loop"
  /\ resp' = NoResp
  /\ UNCHANGED <<src, rp, readFailed, policyReads, denied, delay, lastSleep,
                 ua, callOutcomes, waits, exc, calls, ma, ms, combined, idx,
                 written,
                 data, lastLookup>>

\* the parser returns to main: ma = ..., then ms = ... and combined = ma + ms;
\* the rows of data go with the parser, how the decoding ended is kept
Return ==
  /\ pc = "return"
  /\ IF src = "ma"
     THEN /\ ma' = results
          /\ src' = "ms"
          /\ pc' = "robots"
          /\ UNCHANGED <<ms, combined, idx>>
     ELSE /\ ms' = results
          /\ combined' = ma \o results
          /\ idx' = 1
          /\ pc' = "enrich"
          /\ UNCHANGED <<src, ma>>
  /\ rp' = NoRp
  /\ readFailed' = FALSE
  /\ delay' = 0
  /\ lastSleep' = 0
  /\ page' = 0
  /\ ua' = "primary"
  /\ callOutcomes' = <<>>
  /\ waits' = <<>>
  /\ exc' = "none"
  /\ results' = <<>>
  /\ data' = [data EXCEPT !.rows = <<>>]
  /\ UNCHANGED <<policyReads, denied, resp, calls, written,
                 lastLookup>>

\* one round of the enrichment loop
Enrich ==
  /\ pc = "enrich"
  /\ idx <= Len(combined)
  /\ \E lookup \in LookupResults :
       /\ combined' = [combined EXCEPT ![idx] = Enriched(@, lookup)]
       /\ lastLookup' = IF LooksUp(combined[idx]) THEN lookup ELSE "skipped"
  /\ idx' = idx + 1
  /\ UNCHANGED <<pc, src, rp, readFailed, policyReads, denied, delay,
                 lastSleep, page, ua, callOutcomes, waits, resp, exc, calls,
                 results, ma, ms, written,
                 data>>

\* write_output(combined)
WriteOutput ==
  /\ pc = "enrich"
  /\ idx > Len(combined)
  /\ written' = Append(written, combined)
  /\ lastLookup' = "none"
  /\ pc' = "done"
  /\ UNCHANGED <<src, rp, readFailed, policyReads, denied, delay, lastSleep,
                 page, ua, callOutcomes, waits, resp, exc, calls, results,
                 ma, ms, combined, idx,
                 data>>

Next ==
  \/ FetchRobots
  \/ CheckAllowed
  \/ ReadDelay
  \/ MASleep
  \/ MSLoop
  \/ Call
  \/ Attempt
  \/ Resolve
  \/ Handle
  \/ ParseMA
  \/ ParseMS
  \/ Return
  \/ Enrich
  \/ WriteOutput

Spec == Init /\ [][Next]_vars

(* ---------------- one safe_get call on its own ---------------- *)
\* a call of safe_get for either source with either User-Agent, entered
\* after the crawl delay
InitFetch ==
  /\ pc = "attempt"
  /\ src \in Sources
  /\ rp = NoRp
  /\ readFailed = FALSE
  /\ policyReads = [s \in Sources |-> 1]
  /\ denied = [s \in Sources |-> FALSE]
  /\ delay = MinDelay
  /\ lastSleep = 0
  /\ page = IF src = "ma" THEN 0 ELSE 1
  /\ ua \in {"primary", "fallback"}
  /\ callOutcomes = <<>>
  /\ waits = <<>>
  /\ resp = NoResp
  /\ exc = "none"
  /\ calls = <<[src |-> src, page |-> page, ua |-> ua, slept |-> TRUE,
                result |-> "pending"]>>
  /\ results = <<>>
  /\ ma = <<>>
  /\ ms = <<>>
  /\ combined = <<>>
  /\ idx = 0
  /\ written = <<>>
  /\ data = NoData
  /\ lastLookup = "none"

NextFetch ==
  \/ AttemptResponse
  \/ Resolve

SpecFetch == InitFetch /\ [][NextFetch]_vars

(* ---------------- the date of one row on its own ---------------- *)
\* the date texts a row is tried with
SampleYears == {"2023", "2024", "2025"}
SampleDays == {"01", "15", "29", "30", "31"}

DateTexts ==
  {<<y, "-", m, "-", d>> : y \in SampleYears, m \in {"02", "03", "04", "12"},
                           d \in SampleDays}
  \cup {<<d, " ", b, " ", y>> : d \in SampleDays, b \in {"Feb", "Mar", "Apr", "Dec"},
                               y \in SampleYears}
  \cup {TextFree, <<>>, <<"2024", "-", "13", "-", "01">>,
        <<"2024", "/", "03", "/", "15">>, <<"15", "-", "Mar", "-", "2024">>,
        <<"15", " ", "Mar">>, <<"TBA">>}

\* parse_metal_archives_upcoming has decoded an answer of one row
InitDates ==
  /\ pc = "rows"
  /\ src = "ma"
  /\ rp = NoRp
  /\ readFailed = FALSE
  /\ policyReads = [s \in Sources |-> IF s = "ma" THEN 1 ELSE 0]
  /\ denied = [s \in Sources |-> FALSE]
  /\ delay = MinDelay
  /\ lastSleep = 0
  /\ page = 0
  /\ ua = "primary"
  /\ callOutcomes = <<>>
  /\ waits = <<>>
  /\ resp = NoResp
  /\ exc = "none"
  /\ calls = <<[src |-> "ma", page |-> 0, ua |-> "primary", slept |-> TRUE,
                result |-> "ok"]>>
  /\ results = <<>>
  /\ ma = <<>>
  /\ ms = <<>>
  /\ combined = <<>>
  /\ idx = 0
  /\ written = <<>>
  /\ \E t \in DateTexts :
       data = [kind |-> "object",
               rows |-> <<<<t, Cell(NameOak, <<>>), Cell(NameSap, <<>>)>>>>]
  /\ lastLookup = "none"

\* the loop over the rows of data
ParseRows ==
  /\ pc = "rows"
  /\ results' = MARecords(data.rows)
  /\ pc' = "return"
  /\ UNCHANGED <<src, rp, readFailed, policyReads, denied, delay, lastSleep,
                 page, ua, callOutcomes, waits, resp, exc, calls, ma, ms,
                 combined, idx, written, data, lastLookup>>

NextDates == ParseRows

SpecDates == InitDates /\ [][NextDates]_vars

(* ---------------- properties ---------------- *)
SourceName(s) == IF s = "ma" THEN "metal-archives" ELSE "metalstorm"

\* the calls of one unit: a source and a page
UnitCalls(s, p) == {i \in 1..Len(calls) : calls[i].src = s /\ calls[i].page = p}

\* C1: a call with the primary User-Agent whose attempts were all challenges
\* is followed, before the unit is given up, by exactly one call for the same
\* URL with the fallback User-Agent
C1_FallbackAfterChallenge ==
  \A i \in 1..Len(calls) :
    (calls[i].ua = "primary" /\ calls[i].result = "challenged")
      => IF i = Len(calls)
         THEN pc \in {"raised", "call"}
         ELSE /\ calls[i + 1].ua = "fallback"
              /\ calls[i + 1].src = calls[i].src
              /\ calls[i + 1].page = calls[i].page
              /\ Cardinality({j \in UnitCalls(calls[i].src, calls[i].page) :
                                calls[j].ua = "fallback"}) = 1

\* C2: one call of safe_get makes at most 3 attempts, makes another attempt
\* only after a failed one, and makes none after a successful one
C2_AtMostThreeAttempts ==
  /\ Len(callOutcomes) <= 3
  /\ \A i \in 1..(Len(callOutcomes) - 1) : callOutcomes[i] # "ok"
  /\ pc = "attempt" =>
       /\ Len(callOutcomes) < 3
       /\ \A i \in 1..Len(callOutcomes) : callOutcomes[i] # "ok"

C2_ThirdAttemptReached ==
  /\ pc = "resolve"
  /\ callOutcomes = <<"RequestException", "CloudflareDetected", "HTTPError">>

\* C3: when the fetch of a MetalStorm page below the last one has failed,
\* the following page has been fetched by the time the parser returns
C3_LaterPagesStillAttempted ==
  (src = "ms" /\ pc = "return") =>
    \A i \in 1..Len(calls) :
      (calls[i].src = "ms" /\ calls[i].page < Pages /\ calls[i].result # "ok")
        => UnitCalls("ms", calls[i].page + 1) # {}

\* C4: main never ends with an uncaught exception, calls write_output at
\* most once, and when it is done it has called it exactly once, after the
\* robots.txt of both sources was read
C4_MainCompletes ==
  /\ pc # "crashed"
  /\ Len(written) <= 1
  /\ written # <<>> => pc = "done"
  /\ pc = "done" =>
       /\ Len(written) = 1
       /\ policyReads["ma"] = 1
       /\ policyReads["ms"] = 1

\* the identity key of a record: lowercase(trim(title)), lowercase(trim(artist))
NormKey(r) == <<Lower(Strip(r.title)), Lower(Strip(r.artist))>>

\* C5: the list handed to write_output has at most one record per identity key
C5_OneRecordPerKey ==
  \A k \in 1..Len(written) :
    \A i, j \in 1..Len(written[k]) :
      NormKey(written[k][i]) = NormKey(written[k][j]) => i = j

\* C6: a source whose robots.txt disallows its path is never fetched and
\* contributes no record
C6_DeniedSourceNotFetched ==
  \A s \in Sources :
    denied[s] =>
      /\ UnitCalls(s, 0) = {} /\ \A p \in 1..Pages : UnitCalls(s, p) = {}
      /\ src = s => (results = <<>> /\ pc \notin {"call", "attempt", "resolve"})
      /\ IF s = "ma" THEN ma = <<>> ELSE ms = <<>>
      /\ \A i \in 1..Len(combined) : combined[i].source # SourceName(s)
      /\ \A k \in 1..Len(written) :
           \A i \in 1..Len(written[k]) : written[k][i].source # SourceName(s)

C6_DeniedSourceRunDone ==
  /\ pc = "done"
  /\ denied["ma"]
  /\ ~denied["ms"]
  /\ Len(written[1]) > 0

DelayRead == pc = "sleep" \/ (pc = "loop" /\ page = 1)

\* C8: get_crawl_delay returns 3 without a robots.txt, 3 when no delay is
\* declared or reading it fails, and the larger of 3 and the declared delay
C8_CrawlDelayFloor ==
  /\ delay = 0 \/ delay >= 3
  /\ DelayRead =>
       /\ delay >= 3
       /\ readFailed => delay = 3
       /\ (~readFailed /\ rp.delayKind \in {"none", "raises"}) => delay = 3
       /\ (~readFailed /\ rp.delayKind = "value") =>
            delay = (IF rp.delayVal < 3 THEN 3 ELSE rp.delayVal)

C8_SmallDelayRaised ==
  /\ pc = "sleep"
  /\ ~readFailed
  /\ rp.delayKind = "value"
  /\ rp.delayVal = 1
  /\ delay = 3

MarkerBodies == {BodyCaptcha, BodyAttention, BodyJavascript, BodyBypass}

\* C10: an attempt ends as a challenge exactly when the status is 403 or 429
\* or the body holds a marker in any letter case, whatever the status, and
\* a 403 or 429 never ends as an HTTP status error
C10_ChallengeClassification ==
  (pc = "resolve" /\ resp.kind = "response") =>
    LET o == callOutcomes[Len(callOutcomes)]
    IN  /\ (o = "CloudflareDetected") <=>
             (resp.status \in {403, 429} \/ resp.text \in MarkerBodies)
        /\ o = "HTTPError" => resp.status \notin {403, 429}
        /\ o = "ok" => resp.status = 200

C10_MarkerWithStatus200 ==
  /\ pc = "resolve"
  /\ resp.kind = "response"
  /\ resp.status = 200
  /\ resp.text = BodyCaptcha
  /\ callOutcomes[Len(callOutcomes)] = "CloudflareDetected"

\* C11: every record handed to write_output has no date or a date of the
\* form YYYY-MM-DD
C11_DatesIsoOrNull ==
  \A k \in 1..Len(written) :
    \A i \in 1..Len(written[k]) :
      written[k][i].date = NoDate \/ IsIsoDate(written[k][i].date)

\* C12: a call with the fallback User-Agent follows only a call with the
\* primary one, for the same URL, whose attempts were all challenges; a
\* primary call that failed otherwise is the only call of its unit
C12_FallbackOnlyAfterChallenge ==
  \A i \in 1..Len(calls) :
    /\ calls[i].ua = "fallback" =>
         /\ i > 1
         /\ calls[i - 1].ua = "primary"
         /\ calls[i - 1].result = "challenged"
         /\ calls[i - 1].src = calls[i].src
         /\ calls[i - 1].page = calls[i].page
    /\ (calls[i].ua = "primary" /\ calls[i].result = "failed") =>
         /\ Cardinality(UnitCalls(calls[i].src, calls[i].page)) = 1
         /\ (i = Len(calls) /\ src = calls[i].src /\ page = calls[i].page) =>
              pc \in {"raised", "return"}

C12_FailedPageAbandoned ==
  /\ pc = "return"
  /\ src = "ms"
  /\ page = 2
  /\ calls[Len(calls)].ua = "primary"
  /\ calls[Len(calls)].result = "failed"
  /\ calls[Len(calls)].page = 2

\* C13: within a call the wait before each further attempt is between 2 and
\* 8 seconds, the first one is 2 seconds and the waits never decrease
C13_BackoffWaits ==
  /\ \A i \in 1..Len(waits) : waits[i] >= 2 /\ waits[i] <= 8
  /\ Len(waits) > 0 => waits[1] = 2
  /\ \A i \in 1..(Len(waits) - 1) : waits[i] <= waits[i + 1]

C13_TwoWaits ==
  /\ pc = "attempt"
  /\ Len(waits) = 2
  /\ Len(callOutcomes) = 2

\* C14: MetalStorm pages are fetched in increasing order from page 1, none
\* above page 4, a page only after the page before it has been fetched and
\* parsed, and every Metal-Archives call comes before every MetalStorm call
C14_PagesInOrder ==
  /\ \A i \in 1..(Len(calls) - 1) : calls[i].result # "pending"
  /\ \A i \in 1..Len(calls) :
       /\ calls[i].src = "ma" => calls[i].page = 0
       /\ calls[i].src = "ms" =>
            /\ calls[i].page >= 1 /\ calls[i].page <= 4
            /\ (i = 1 \/ calls[i - 1].src = "ma") => calls[i].page = 1
            /\ (i > 1 /\ calls[i - 1].src = "ms" /\ calls[i].ua = "primary") =>
                 /\ calls[i].page = calls[i - 1].page + 1
                 /\ calls[i - 1].result = "ok"
       /\ \A j \in 1..Len(calls) :
            (calls[i].src = "ms" /\ calls[j].src = "ma") => j < i
  /\ (src = "ms" /\ pc \in {"call", "attempt", "resolve", "raised", "returned"}) =>
       (page >= 1 /\ page <= 4)

C14_LastPageFetched ==
  /\ calls # <<>>
  /\ calls[1].src = "ma"
  /\ calls[Len(calls)].src = "ms"
  /\ calls[Len(calls)].page = 4
  /\ pc = "loop"

\* C15: when the Metal-Archives body is not valid JSON the parser returns an
\* empty list, main goes on, and MetalStorm is processed
C15_InvalidJsonEmpty ==
  data.kind = "invalid" =>
    /\ pc # "crashed"
    /\ pc = "done" \/ ENABLED Next
    /\ src = "ma" => (pc = "return" /\ results = <<>>)
    /\ ma = <<>>
    /\ \A i \in 1..Len(combined) : combined[i].source # "metal-archives"
    /\ \A k \in 1..Len(written) :
         \A i \in 1..Len(written[k]) : written[k][i].source # "metal-archives"
    /\ pc \in {"enrich", "done"} => policyReads["ms"] = 1

C15_InvalidJsonRunDone ==
  /\ data.kind = "invalid"
  /\ pc = "done"
  /\ Len(written[1]) > 0
  /\ \E i \in 1..Len(calls) : calls[i].src = "ms" /\ calls[i].result = "ok"

\* the rows of data that have at least 3 fields, in their order
LongRows == SelectSeq(data.rows, LAMBDA row : Len(row) >= 3)

\* C16: parse_metal_archives_upcoming returns one record per row of at least
\* 3 fields, in row order, whether or not the date of the row parses
C16_OneRecordPerLongRow ==
  (src = "ma" /\ pc = "return" /\ data.kind = "object") =>
    /\ Len(results) = Len(LongRows)
    /\ \A k \in 1..Len(LongRows) :
         /\ results[k].source = "metal-archives"
         /\ results[k].artist = Strip(LongRows[k][2].text)
         /\ results[k].title = Strip(LongRows[k][3].text)
         /\ results[k].url = LongRows[k][3].href
         /\ LongRows[k][1] = TextFree => results[k].date = NoDate
         /\ LongRows[k][1] # TextFree => results[k].date = TextIso

C16_RowAfterUnparsableDate ==
  /\ src = "ma"
  /\ pc = "return"
  /\ data.kind = "object"
  /\ data.rows = <<RowFree, RowDayMonthYear>>
  /\ Len(results) = 2
  /\ results[1].date = NoDate
  /\ results[2].artist = NameOakUpper

\* the number of a month abbreviation
MonthOf(b) ==
  CASE b = "Feb" -> "02" [] b = "Mar" -> "03" [] b = "Apr" -> "04"
    [] b = "Dec" -> "12" [] OTHER -> "00"

\* the days of the calendar among the sample days
RealDay(y, m, d) ==
  /\ m = "02" => (d \in {"01", "15"} \/ (d = "29" /\ y = "2024"))
  /\ m = "04" => d # "31"

\* the date the rules give: the text itself when it is YYYY-MM-DD, the
\* rearranged "<day> <month-abbrev> <year>" otherwise, else none
ExpectedDate(t) ==
  IF /\ Len(t) = 5 /\ t[2] = "-" /\ t[4] = "-"
     /\ t[1] \in SampleYears /\ t[3] \in {"02", "03", "04", "12"}
     /\ t[5] \in SampleDays /\ RealDay(t[1], t[3], t[5])
  THEN t
  ELSE IF /\ Len(t) = 5 /\ t[2] = " " /\ t[4] = " "
          /\ t[5] \in SampleYears /\ MonthOf(t[3]) # "00"
          /\ t[1] \in SampleDays /\ RealDay(t[5], MonthOf(t[3]), t[1])
  THEN <<t[5], "-", MonthOf(t[3]), "-", t[1]>>
  ELSE NoDate

Unenriched(item) == [k \in DOMAIN item \ {"enriched"} |-> item[k]]

EnrichmentKeepsRecords ==
  pc \in {"enrich", "done"} =>
    /\ Len(combined) = Len(ma) + Len(ms)
    /\ \A i \in 1..Len(combined) :
         /\ Unenriched(combined[i]) = (ma \o ms)[i]
         /\ "enriched" \in DOMAIN combined[i] =>
              /\ i < idx
              /\ LooksUp(combined[i])
              /\ combined[i].enriched = MbRelease
    /\ (pc = "enrich" /\ idx > 1) =>
         ("enriched" \in DOMAIN combined[idx - 1] <=> lastLookup = "found")
    /\ lastLookup \in {"empty", "raises", "skipped"} => pc = "enrich"
    /\ pc = "done" => (idx = Len(combined) + 1 /\ written = <<combined>>)

EnrichmentStep ==
  pc = "enrich" =>
    /\ Len(combined') = Len(combined)
    /\ \A i \in 1..Len(combined) :
         (i # idx \/ lastLookup' # "found") => combined'[i] = combined[i]

\* C18: enrichment keeps the records, their order and their fields; a record
\* gains "enriched" only when its lookup found a release, and a failed lookup
\* changes nothing and is followed by the lookups of the later records
C18_EnrichmentFrame == []EnrichmentKeepsRecords /\ [][EnrichmentStep]_vars

C18_FoundAfterFailedLookup ==
  /\ pc = "enrich"
  /\ idx = 3
  /\ lastLookup = "found"
  /\ LooksUp(combined[1])
  /\ "enriched" \notin DOMAIN combined[1]
  /\ "enriched" \in DOMAIN combined[2]

\* C19: safe_get returns a response only when it is no challenge and its
\* status is no 4xx/5xx error; every other call ends with an exception and
\* hands no response to its caller
C19_OnlyGoodResponseReturned ==
  /\ pc = "returned" =>
       /\ resp.kind = "response"
       /\ resp.status \notin 400..599
       /\ resp.text \notin MarkerBodies
       /\ calls[Len(calls)].result = "ok"
  /\ pc = "raised" =>
       /\ exc \in {"RetryError", "RequestException", "HTTPError",
                   "CloudflareDetected"}
       /\ resp = NoResp
       /\ calls[Len(calls)].result \in {"challenged", "failed"}

C19_NearMissReturned ==
  /\ pc = "returned"
  /\ resp.status = 200
  /\ resp.text = BodyNearMiss

\* the MetalStorm pages fetched so far
FetchedPages ==
  {i \in 1..Len(calls) : calls[i].src = "ms" /\ calls[i].result = "ok"}

CollectedKept ==
  /\ (src = "ms" /\ pc \in {"raised", "return"}) =>
       Len(results) >= Cardinality(FetchedPages)
  /\ pc = "done" =>
       /\ Len(ms) >= Cardinality(FetchedPages)
       /\ written = <<combined>>
       /\ Len(combined) = Len(ma) + Len(ms)
       /\ \A i \in 1..Len(combined) : Unenriched(combined[i]) = (ma \o ms)[i]

CollectedReturned ==
  /\ (pc = "raised" /\ src = "ms" /\ pc' = "return") => results' = results
  /\ (pc = "return" /\ src = "ma") => ma' = results
  /\ (pc = "return" /\ src = "ms") =>
       (ms' = results /\ combined' = ma \o results)
  /\ pc \in {"enrich", "done"} => (ma' = ma /\ ms' = ms)

\* C20: when the fetch of MetalStorm page p fails, the records of pages
\* 1 .. p-1 are returned and are in the snapshot with every Metal-Archives
\* record
C20_EarlierPagesKept == []CollectedKept /\ [][CollectedReturned]_vars

C20_FailedPageAfterRecords ==
  /\ pc = "done"
  /\ \E i \in 1..Len(calls) :
       /\ calls[i].src = "ms"
       /\ calls[i].page >= 2
       /\ calls[i].result \in {"failed", "challenged"}
  /\ Len(ma) >= 1
  /\ Len(ms) >= 1
  /\ written = <<combined>>
  /\ Len(combined) = Len(ma) + Len(ms)

====
